---- MODULE Spec2Model ----
(***************************************************************************)
(* A model of the chat-nyu scraping pipeline:                              *)
(*   backend/get_data.py  main, load_scraped_urls, is_allowed_by_robots,   *)
(*                        hash_content                                     *)
(*   backend/scraper.py   fetch_content, clean_markdown                    *)
(*   backend/main.py      load_jsonl                                       *)
(* Three specifications share the module:                                  *)
(*   Spec       runs of main() over a link file and a data file            *)
(*   SpecLoad   the two readers of data.jsonl applied to a file            *)
(*   SpecClean  clean_markdown applied once and twice to a text            *)
(***************************************************************************)
EXTENDS Integers, Sequences, FiniteSets, TLC

VARIABLES
    linksFile,     \* links.json on disk: [status, entries], see LinkFiles
    dataFile,      \* data.jsonl on disk: the lines the operating system holds
    pc,            \* position of main(): see Running and Ended
    run,           \* number of the current invocation of main()
    sites,         \* main: sites
    scraped,       \* main: scraped, a function url -> content_hash
    i,             \* main: index in sites of the entry the loop is at
    content,       \* main: content, the value fetch_content returned
    outBuf,        \* out: lines written and not yet flushed
    errlog,        \* errlog: the entries written by this run
    obs,           \* per Link Entry: what this run did for it
    startStore,    \* dataFile as it was when this run started
    failedBefore,  \* URLs whose entry ended FAILED or SKIPPED_ROBOTS in an earlier run
    file,          \* SpecLoad: the JSONL file read
    ledgerResult,  \* SpecLoad: outcome of load_scraped_urls
    jsonlResult,   \* SpecLoad: outcome of load_jsonl
    text,          \* SpecClean: the input text
    once,          \* SpecClean: clean_markdown(text)
    twice          \* SpecClean: clean_markdown(clean_markdown(text))

mainVars == <<linksFile, dataFile, pc, run, sites, scraped, i, content, outBuf,
              errlog, obs, startStore, failedBefore>>
loadVars == <<file, ledgerResult, jsonlResult>>
cleanVars == <<text, once, twice>>
vars == <<mainVars, loadVars, cleanVars>>

----------------------------------------------------------------------------
(* Bounds *)

MaxLinks == 2
MaxStore == 2
MaxRuns == 2
MaxFileLines == 3
MaxLen == 6

----------------------------------------------------------------------------
(* Values *)

Missing == "<missing>"
None == "<none>"
URLs == {"u1", "u2"}
Selector == "sel"
Markdown == "md"

RECURSIVE SeqsUpTo(_, _)
SeqsUpTo(S, n) ==
    IF n = 0 THEN {<<>>}
    ELSE LET shorter == SeqsUpTo(S, n - 1)
         IN  shorter \cup {Append(s, x) : s \in {t \in shorter : Len(t) = n - 1}, x \in S}

\* A Link Entry as json.load returns it; a key the object lacks is Missing.
\* (main reads "url" first: an entry lacking both keys fails as one lacking
\* "url" does.)
LinkEntries ==
    [url : URLs, selector : {Selector, Missing}]
    \cup {[url |-> Missing, selector |-> Selector]}

\* json.dumps of main's entry dict: one line of data.jsonl.
JsonLine(u, h, c) == [kind |-> "object", url |-> u, content_hash |-> h, content |-> c]

\* Lines a JSONL file can hold: not JSON at all, a JSON value that is no
\* object, or an object with or without the keys "url" and "content".
Garbage == [kind |-> "garbage", url |-> Missing, content_hash |-> Missing, content |-> Missing]
NonObject == [kind |-> "nonobject", url |-> Missing, content_hash |-> Missing, content |-> Missing]
StoreLines ==
    {Garbage, NonObject}
    \cup {JsonLine(u, h, c) : u \in URLs \cup {Missing},
                              h \in {"h", Missing}, c \in {"c", Missing}}

----------------------------------------------------------------------------
(* get_data.py: load_scraped_urls *)

\* json.loads(line) followed by entry["url"]: raises for a line that is not
\* JSON, whose JSON value is no object, or whose object has no "url".
LedgerLineRaises(line) == line.kind # "object" \/ line.url = Missing

\* entry.get("content_hash"): None when the key is absent.
GetContentHash(line) == IF line.content_hash = Missing THEN None ELSE line.content_hash

\* The loop over the lines: a line that raises is skipped by the except
\* clause, any other sets scraped[url] (a later line overwrites an earlier).
RECURSIVE LedgerLoop(_, _, _)
LedgerLoop(lines, k, acc) ==
    IF k > Len(lines) THEN acc
    ELSE IF LedgerLineRaises(lines[k]) THEN LedgerLoop(lines, k + 1, acc)
    ELSE LedgerLoop(lines, k + 1,
             [u \in DOMAIN acc \cup {lines[k].url} |->
                 IF u = lines[k].url THEN GetContentHash(lines[k]) ELSE acc[u]])

\* A plausible bug: the first line that raises ends the replay.
RECURSIVE LedgerLoopAborting(_, _, _)
LedgerLoopAborting(lines, k, acc) ==
    IF k > Len(lines) THEN acc
    ELSE IF LedgerLineRaises(lines[k]) THEN acc
    ELSE LedgerLoopAborting(lines, k + 1,
             [u \in DOMAIN acc \cup {lines[k].url} |->
                 IF u = lines[k].url THEN GetContentHash(lines[k]) ELSE acc[u]])

LoadScrapedUrlsAborting(lines) == LedgerLoopAborting(lines, 1, <<>>)

LoadScrapedUrls(lines) == LedgerLoop(lines, 1, <<>>)

----------------------------------------------------------------------------
(* main.py: load_jsonl *)

\* json.loads(line), entry["content"], entry["url"]: nothing catches what
\* these raise.
JsonlLineRaises(line) ==
    line.kind # "object" \/ line.content = Missing \/ line.url = Missing

JsonlError(line) ==
    IF line.kind = "garbage" THEN "JSONDecodeError"
    ELSE IF line.kind = "nonobject" THEN "TypeError"
    ELSE "KeyError"

RECURSIVE JsonlLoop(_, _, _)
JsonlLoop(lines, k, docs) ==
    IF k > Len(lines) THEN [raised |-> FALSE, error |-> None, docs |-> docs]
    ELSE IF JsonlLineRaises(lines[k])
         THEN [raised |-> TRUE, error |-> JsonlError(lines[k]), docs |-> <<>>]
    ELSE JsonlLoop(lines, k + 1,
             Append(docs, [content |-> lines[k].content, url |-> lines[k].url]))

\* A plausible bug: "content" is read with .get and never raises.
RECURSIVE JsonlLoopLenient(_, _, _)
JsonlLoopLenient(lines, k, docs) ==
    IF k > Len(lines) THEN [raised |-> FALSE, error |-> None, docs |-> docs]
    ELSE IF lines[k].kind # "object" \/ lines[k].url = Missing
         THEN [raised |-> TRUE, error |-> JsonlError(lines[k]), docs |-> <<>>]
    ELSE JsonlLoopLenient(lines, k + 1,
             Append(docs, [content |-> lines[k].content, url |-> lines[k].url]))

LoadJsonlLenient(lines) == JsonlLoopLenient(lines, 1, <<>>)

LoadJsonl(lines) == JsonlLoop(lines, 1, <<>>)

----------------------------------------------------------------------------
(* get_data.py: is_allowed_by_robots, hash_content; scraper.py: fetch_content *)

\* What the try block of is_allowed_by_robots meets: rp.read() (or set_url,
\* or can_fetch) raises, or can_fetch answers True or False.
RobotsProbes == {"allow", "disallow", "raise"}

IsAllowedByRobotsFailOpen(probe) == probe # "disallow"

IsAllowedByRobots(probe) ==
    IF probe = "raise" THEN FALSE        \* except Exception: return False
    ELSE probe = "allow"                 \* return rp.can_fetch("*", url)

\* What fetch_content meets: requests.get or raise_for_status raises, the
\* selector matches nothing, or the page is fetched and converted.
FetchOutcomes == {"ok", "RequestException", "ValueError"}

\* fetch_content returns the dict {"markdown": markdown}.
FetchContent(outcome) ==
    IF outcome = "ok"
    THEN [raised |-> FALSE, error |-> None,
          value |-> [type |-> "dict", markdown |-> Markdown]]
    ELSE [raised |-> TRUE, error |-> outcome, value |-> None]

\* hash_content calls text.encode("utf-8"): a str has it, a dict has not.
HashContent(t) ==
    IF t.type = "str"
    THEN [raised |-> FALSE, error |-> None, value |-> <<"sha256", t>>]
    ELSE [raised |-> TRUE, error |-> "AttributeError", value |-> None]

----------------------------------------------------------------------------
(* get_data.py: main *)

\* Positions of main: "start" before line 94, "loop" at the head of the for
\* loop, "robots" at line 114, "fetch" at line 125, "hash" at line 128,
\* "flush" at line 140, "sleep" at line 143; "done" after a return, "aborted"
\* after an exception left main, "crashed" after the process was terminated.
Running == {"loop", "robots", "fetch", "hash", "flush", "sleep"}
Ended == {"done", "aborted", "crashed"}

\* What a run has done for one Link Entry: its state in the orchestrator's
\* state machine, the robots probes made and the last one's outcome, the
\* calls of fetch_content made and the last one's outcome.
Fresh == [state |-> "PENDING", probes |-> 0, gate |-> None,
          fetches |-> 0, fetched |-> None]

BlockedReason == "Blocked by robots.txt"
ErrorEntry(u, reason) == [url |-> u, reason |-> reason]

WellFormed(site) == site.url # Missing /\ site.selector # Missing

\* Leaving the with block (lines 101-103) closes out, which flushes it.
CloseFiles ==
    /\ dataFile' = dataFile \o outBuf
    /\ outBuf' = <<>>

\* The end of one iteration of the for loop.
NextIteration(st) ==
    /\ obs' = [obs EXCEPT ![i] = st]
    /\ i' = i + 1
    /\ pc' = "loop"

\* Lines 144-147: the except clause of the try block.
ExceptHandler(e, st) ==
    /\ errlog' = Append(errlog, ErrorEntry(sites[i].url, e))
    /\ NextIteration([st EXCEPT !.state = "FAILED"])

\* Lines 94-103: json.load of links.json, load_scraped_urls, the two opens.
\* A missing or invalid links.json raises out of main.
Startup ==
    /\ UNCHANGED <<loadVars, cleanVars>>
    /\ pc = "start"
    /\ IF linksFile.status # "ok"
       THEN /\ pc' = "aborted"
            /\ UNCHANGED <<sites, scraped, i, obs>>
       ELSE /\ sites' = linksFile.entries
            /\ scraped' = LoadScrapedUrls(dataFile)
            /\ i' = 1
            /\ obs' = [k \in 1..Len(linksFile.entries) |-> Fresh]
            /\ pc' = "loop"
    /\ UNCHANGED <<linksFile, dataFile, run, content, outBuf, errlog,
                   startStore, failedBefore>>

\* A plausible bug: the ledger also skips what an earlier run failed on.
SkipEntryRemembering(u) == u \in DOMAIN scraped \/ u \in failedBefore

\* Line 109: url in scraped.
SkipEntry(u) == u \in DOMAIN scraped

\* A plausible bug: an entry lacking a key is passed over.
NextSiteLenient ==
    /\ UNCHANGED <<loadVars, cleanVars>>
    /\ pc = "loop"
    /\ i <= Len(sites)
    /\ IF ~WellFormed(sites[i]) \/ SkipEntry(sites[i].url)
       THEN NextIteration([obs[i] EXCEPT !.state = "SKIPPED_DUPLICATE"])
       ELSE pc' = "robots" /\ UNCHANGED <<i, obs>>
    /\ UNCHANGED <<linksFile, dataFile, outBuf, run, sites, scraped, content,
                   errlog, startStore, failedBefore>>

\* Lines 104-111: the next site of the list; site["url"] and site["selector"]
\* raise KeyError out of main, a URL of the ledger is skipped.
NextSite ==
    /\ UNCHANGED <<loadVars, cleanVars>>
    /\ pc = "loop"
    /\ i <= Len(sites)
    /\ IF ~WellFormed(sites[i])
       THEN /\ pc' = "aborted"
            /\ CloseFiles
            /\ UNCHANGED <<i, obs>>
       ELSE IF SkipEntry(sites[i].url)
       THEN /\ NextIteration([obs[i] EXCEPT !.state = "SKIPPED_DUPLICATE"])
            /\ UNCHANGED <<dataFile, outBuf>>
       ELSE /\ pc' = "robots"
            /\ UNCHANGED <<i, obs, dataFile, outBuf>>
    /\ UNCHANGED <<linksFile, run, sites, scraped, content, errlog,
                   startStore, failedBefore>>

\* The for loop is exhausted: the with block closes both files, main returns.
Finish ==
    /\ UNCHANGED <<loadVars, cleanVars>>
    /\ pc = "loop"
    /\ i > Len(sites)
    /\ pc' = "done"
    /\ CloseFiles
    /\ UNCHANGED <<linksFile, run, sites, scraped, i, content, errlog, obs,
                   startStore, failedBefore>>

\* A plausible bug: the blocked branch logs and falls through to the fetch.
RobotsGateNoContinue ==
    /\ UNCHANGED <<loadVars, cleanVars>>
    /\ pc = "robots"
    /\ \E probe \in RobotsProbes :
         /\ obs' = [obs EXCEPT ![i].probes = @ + 1, ![i].gate = probe]
         /\ errlog' = IF ~IsAllowedByRobots(probe)
                      THEN Append(errlog, ErrorEntry(sites[i].url, BlockedReason))
                      ELSE errlog
    /\ pc' = "fetch"
    /\ UNCHANGED <<linksFile, dataFile, run, sites, scraped, i, content, outBuf,
                   startStore, failedBefore>>

\* Lines 113-120: one call of is_allowed_by_robots; a blocked URL is logged
\* and the loop continues.
RobotsGate ==
    /\ UNCHANGED <<loadVars, cleanVars>>
    /\ pc = "robots"
    /\ \E probe \in RobotsProbes :
         LET st == [obs[i] EXCEPT !.probes = @ + 1, !.gate = probe]
         IN  IF ~IsAllowedByRobots(probe)
             THEN /\ errlog' = Append(errlog, ErrorEntry(sites[i].url, BlockedReason))
                  /\ NextIteration([st EXCEPT !.state = "SKIPPED_ROBOTS"])
             ELSE /\ pc' = "fetch"
                  /\ obs' = [obs EXCEPT ![i] = st]
                  /\ UNCHANGED <<i, errlog>>
    /\ UNCHANGED <<linksFile, dataFile, run, sites, scraped, content, outBuf,
                   startStore, failedBefore>>

\* A plausible bug: the URL being fetched is entered in the Dedup Index.
FetchRemembering ==
    /\ UNCHANGED <<loadVars, cleanVars>>
    /\ pc = "fetch"
    /\ \E outcome \in FetchOutcomes :
         LET r == FetchContent(outcome)
             st == [obs[i] EXCEPT !.fetches = @ + 1,
                                  !.fetched = IF r.raised THEN "raised" ELSE "ok"]
         IN  IF r.raised
             THEN /\ ExceptHandler(r.error, st)
                  /\ UNCHANGED content
             ELSE /\ content' = r.value
                  /\ pc' = "hash"
                  /\ obs' = [obs EXCEPT ![i] = st]
                  /\ UNCHANGED <<i, errlog>>
    /\ scraped' = [u \in DOMAIN scraped \cup {sites[i].url} |->
                      IF u \in DOMAIN scraped THEN scraped[u] ELSE None]
    /\ UNCHANGED <<linksFile, dataFile, run, sites, outBuf,
                   startStore, failedBefore>>

\* Line 125: one call of fetch_content inside the try block.
Fetch ==
    /\ UNCHANGED <<loadVars, cleanVars>>
    /\ pc = "fetch"
    /\ \E outcome \in FetchOutcomes :
         LET r == FetchContent(outcome)
             st == [obs[i] EXCEPT !.fetches = @ + 1,
                                  !.fetched = IF r.raised THEN "raised" ELSE "ok"]
         IN  IF r.raised
             THEN /\ ExceptHandler(r.error, st)
                  /\ UNCHANGED content
             ELSE /\ content' = r.value
                  /\ pc' = "hash"
                  /\ obs' = [obs EXCEPT ![i] = st]
                  /\ UNCHANGED <<i, errlog>>
    /\ UNCHANGED <<linksFile, dataFile, run, sites, scraped, outBuf,
                   startStore, failedBefore>>

\* Lines 128-143, the rest of the try block, one statement group at a time:
\*   "hash"   hash_content(content), the entry dict, out.write(json.dumps)
\*   "flush"  out.flush()
\*   "sleep"  time.sleep(1), then the next iteration
\* An exception of hash_content is caught by the except clause.
Store ==
    /\ UNCHANGED <<loadVars, cleanVars>>
    /\ pc \in {"hash", "flush", "sleep"}
    /\ CASE pc = "hash" ->
              LET h == HashContent(content)
              IN  IF h.raised
                  THEN /\ ExceptHandler(h.error, obs[i])
                       /\ UNCHANGED <<dataFile, outBuf>>
                  ELSE /\ outBuf' = Append(outBuf, JsonLine(sites[i].url, h.value, content))
                       /\ pc' = "flush"
                       /\ UNCHANGED <<dataFile, i, errlog, obs>>
         [] pc = "flush" ->
              /\ dataFile' = dataFile \o outBuf
              /\ outBuf' = <<>>
              /\ obs' = [obs EXCEPT ![i].state = "FETCHED"]
              /\ pc' = "sleep"
              /\ UNCHANGED <<i, errlog>>
         [] pc = "sleep" ->
              /\ NextIteration(obs[i])
              /\ UNCHANGED <<dataFile, outBuf, errlog>>
    /\ UNCHANGED <<linksFile, run, sites, scraped, content, startStore, failedBefore>>

\* The process is terminated from outside while main runs: what out holds
\* unflushed is lost, what was flushed stays in data.jsonl.
Crash ==
    /\ UNCHANGED <<loadVars, cleanVars>>
    /\ pc \in Running
    /\ pc' = "crashed"
    /\ outBuf' = <<>>
    /\ UNCHANGED <<linksFile, dataFile, run, sites, scraped, i, content, errlog,
                   obs, startStore, failedBefore>>

\* main() is invoked again on the same links.json, data.jsonl left as it is.
Rerun ==
    /\ UNCHANGED <<loadVars, cleanVars>>
    /\ pc \in Ended
    /\ run < MaxRuns
    /\ run' = run + 1
    /\ pc' = "start"
    /\ failedBefore' = failedBefore \cup
           {sites[k].url : k \in {j \in DOMAIN obs :
                                     obs[j].state \in {"FAILED", "SKIPPED_ROBOTS"}}}
    /\ startStore' = dataFile
    /\ sites' = <<>>
    /\ scraped' = <<>>
    /\ i' = 0
    /\ content' = None
    /\ errlog' = <<>>
    /\ obs' = <<>>
    /\ UNCHANGED <<linksFile, dataFile, outBuf>>

\* The data file a run can find: lines of earlier runs and damaged lines.
LedgerLines == {Garbage, JsonLine(Missing, "h", "c")}
               \cup {JsonLine(u, "h", "c") : u \in URLs}

\* links.json: absent, not JSON, or a JSON list of entries.
LinkFiles ==
    {[status |-> st, entries |-> <<>>] : st \in {"missing", "invalid"}}
    \cup {[status |-> "ok", entries |-> es] : es \in SeqsUpTo(LinkEntries, MaxLinks)}

InitMain ==
    /\ linksFile \in LinkFiles
    /\ dataFile \in SeqsUpTo(LedgerLines, MaxStore)
    /\ startStore = dataFile
    /\ pc = "start"
    /\ run = 1
    /\ sites = <<>>
    /\ scraped = <<>>
    /\ i = 0
    /\ content = None
    /\ outBuf = <<>>
    /\ errlog = <<>>
    /\ obs = <<>>
    /\ failedBefore = {}

NotCalled == [called |-> FALSE, raised |-> FALSE, error |-> None, value |-> <<>>]
Returned(v) == [called |-> TRUE, raised |-> FALSE, error |-> None, value |-> v]
Raised(e) == [called |-> TRUE, raised |-> TRUE, error |-> e, value |-> <<>>]

IdleMain ==
    /\ linksFile = [status |-> "missing", entries |-> <<>>]
    /\ dataFile = <<>>
    /\ startStore = <<>>
    /\ run = 1
    /\ sites = <<>>
    /\ scraped = <<>>
    /\ i = 0
    /\ content = None
    /\ outBuf = <<>>
    /\ errlog = <<>>
    /\ obs = <<>>
    /\ failedBefore = {}
IdleLoad == file = <<>> /\ ledgerResult = NotCalled /\ jsonlResult = NotCalled
IdleClean == text = <<>> /\ once = <<>> /\ twice = <<>>

Init == InitMain /\ IdleLoad /\ IdleClean

Next ==
    \/ Startup
    \/ NextSite
    \/ Finish
    \/ RobotsGate
    \/ Fetch
    \/ Store
    \/ Crash
    \/ Rerun

Spec == Init /\ [][Next]_vars

----------------------------------------------------------------------------
(* Vocabulary of the claims about main *)

Range(q) == {q[k] : k \in DOMAIN q}

\* The URLs that have a well-formed Scrape Record among the lines.
RecordedUrls(lines) ==
    {l.url : l \in {m \in Range(lines) : m.kind = "object" /\ m.url # Missing}}

\* The lines this run has appended to data.jsonl, and those it has written.
Appended == SubSeq(dataFile, Len(startStore) + 1, Len(dataFile))
Written == Appended \o outBuf

Loaded == pc \in Running \cup Ended /\ linksFile.status = "ok"
Processed(k) == k \in DOMAIN obs /\ obs[k].state # "PENDING"
At(u) == {k \in DOMAIN obs : sites[k].url = u}
ErrorsFor(u) == {k \in DOMAIN errlog : errlog[k].url = u}
RaisedSet == {k \in DOMAIN obs : obs[k].fetched = "raised"}

\* C1. Forward progress with exact counts: a completed run over N entries,
\* none in the store at startup and all allowed by the Robots Gate, whose
\* fetches raised for the entries of F, has appended N - |F| Scrape Records
\* and |F| Error Entries.
ForwardProgressCounts ==
    (/\ pc = "done"
     /\ \A k \in DOMAIN obs :
          sites[k].url \notin RecordedUrls(startStore) /\ obs[k].gate = "allow")
    => /\ Len(Appended) = Len(sites) - Cardinality(RaisedSet)
       /\ Len(errlog) = Cardinality(RaisedSet)

\* C2. Dedup invariant: for a URL with a well-formed Scrape Record in the
\* store when the run starts, the run makes no robots probe and no call of
\* fetch_content, and writes no record and no Error Entry.
DedupInvariant ==
    Loaded =>
      \A k \in DOMAIN obs :
         sites[k].url \in RecordedUrls(startStore)
         => /\ obs[k].probes = 0
            /\ obs[k].fetches = 0
            /\ ErrorsFor(sites[k].url) = {}
            /\ \A l \in Range(Written) : l.url # sites[k].url

DedupWitness ==
    /\ pc = "done"
    /\ \E k \in DOMAIN obs :
         /\ sites[k].url \in RecordedUrls(startStore)
         /\ obs[k].state = "SKIPPED_DUPLICATE"
    /\ \E k \in DOMAIN obs : obs[k].fetches = 1
    /\ Len(startStore) = 2 /\ startStore[1].kind = "garbage"

\* C3 as stated. Fail-closed robots policy: an entry whose probe raised is
\* blocked after that one probe, and its URL is not fetched afterwards in
\* the run.
FailClosedBlocksUrl ==
    Loaded =>
      \A k \in DOMAIN obs :
         obs[k].gate = "raise"
         => /\ obs[k].state = "SKIPPED_ROBOTS"
            /\ obs[k].probes = 1
            /\ \A j \in At(sites[k].url) : j >= k => obs[j].fetches = 0

\* C3 amended. An entry whose probe raised is blocked after that one probe
\* and is itself never fetched; no entry is probed more than once.
FailClosedBlocksEntry ==
    Loaded =>
      \A k \in DOMAIN obs :
         /\ obs[k].probes <= 1
         /\ obs[k].gate = "raise"
            => /\ obs[k].state = "SKIPPED_ROBOTS"
               /\ obs[k].probes = 1
               /\ obs[k].fetches = 0
               /\ \E e \in Range(errlog) :
                     e = ErrorEntry(sites[k].url, BlockedReason)

FailClosedWitness ==
    /\ pc = "done"
    /\ \E k \in DOMAIN obs : obs[k].gate = "raise" /\ obs[k].state = "SKIPPED_ROBOTS"

\* C6 as stated. Startup errors are fatal before any network activity: a
\* run that failed on links.json (missing, invalid, or an entry lacking a
\* key at any position) has made no probe and no fetch and written nothing.
StartupErrorsBeforeNetwork ==
    pc = "aborted" =>
      /\ \A k \in DOMAIN obs : obs[k].probes = 0 /\ obs[k].fetches = 0
      /\ errlog = <<>>
      /\ Written = <<>>

\* C6 amended. A missing or invalid links.json fails the run before the
\* list is loaded and before any probe, fetch or write; an entry lacking a
\* key fails the run when the loop reaches it, after every earlier entry was
\* processed and before anything is done for it or for a later entry; a run
\* over such a list never completes.
AbortAtMalformedEntry ==
    /\ linksFile.status # "ok" =>
         /\ pc \in {"start", "aborted"}
         /\ obs = <<>> /\ errlog = <<>> /\ Written = <<>>
    /\ (pc = "aborted" /\ linksFile.status = "ok") =>
         /\ i \in DOMAIN obs
         /\ ~WellFormed(sites[i])
         /\ \A k \in DOMAIN obs :
              /\ k < i => WellFormed(sites[k]) /\ Processed(k)
              /\ k >= i => obs[k] = Fresh
    /\ pc = "done" => \A k \in DOMAIN obs : WellFormed(sites[k])
    /\ Loaded => \A k \in DOMAIN obs : ~WellFormed(sites[k]) => obs[k] = Fresh

AbortWitness ==
    /\ pc = "aborted"
    /\ i = 2
    /\ obs[1].fetches = 1
    /\ Len(errlog) = 1

\* C7 as stated. No retries: at most one fetch per Link Entry in a run, and
\* on a re-run with the store untouched the Dedup Ledger still skips a URL
\* whose entry ended FAILED or SKIPPED_ROBOTS.
FailedStillSkipped ==
    Loaded =>
      \A k \in DOMAIN obs :
         /\ obs[k].fetches <= 1
         /\ (run > 1 /\ sites[k].url \in failedBefore /\ Processed(k))
            => obs[k].state = "SKIPPED_DUPLICATE"

\* C7 amended. At most one fetch per Link Entry in a run; a URL whose entry
\* ended FAILED or SKIPPED_ROBOTS and that has no record in the store is not
\* skipped by the Dedup Ledger on a re-run: it is probed again and, when
\* the probe allows it, fetched again.
FailedRetriedOnRerun ==
    Loaded =>
      \A k \in DOMAIN obs :
         /\ obs[k].fetches <= 1
         /\ (/\ run > 1
             /\ sites[k].url \in failedBefore
             /\ sites[k].url \notin RecordedUrls(startStore)
             /\ Processed(k))
            => /\ obs[k].state \in {"SKIPPED_ROBOTS", "FETCHED", "FAILED"}
               /\ obs[k].probes = 1
               /\ obs[k].gate = "allow" => obs[k].fetches = 1

RetryWitness ==
    /\ run = 2
    /\ pc = "done"
    /\ \E k \in DOMAIN obs :
         /\ sites[k].url \in failedBefore
         /\ obs[k].fetches = 1
         /\ obs[k].state = "FAILED"

\* The entries of the error log that report url u blocked, the records
\* written for u, and the entries of u in a given state.
BlockedFor(u) == {k \in ErrorsFor(u) : errlog[k].reason = BlockedReason}
RecordsFor(u) == {k \in DOMAIN Written : Written[k].url = u}
InState(u, st) == {k \in At(u) : obs[k].state = st}

\* What holds of every Link Entry at every point of a run.
EntryOrder ==
    Loaded =>
      \A k \in DOMAIN obs :
         /\ obs[k].state \in {"PENDING", "SKIPPED_DUPLICATE", "SKIPPED_ROBOTS",
                              "FETCHED", "FAILED"}
         /\ obs[k].fetches > 0
            => /\ sites[k].url \notin DOMAIN scraped
               /\ obs[k].probes = 1
               /\ obs[k].gate = "allow"
         /\ obs[k].probes > 0 => sites[k].url \notin DOMAIN scraped
         /\ obs[k].state = "SKIPPED_DUPLICATE"
            => obs[k].probes = 0 /\ obs[k].fetches = 0
         /\ obs[k].state = "SKIPPED_ROBOTS"
            => obs[k].gate \in {"disallow", "raise"} /\ obs[k].fetches = 0
         /\ obs[k].state \in {"FETCHED", "FAILED"} => obs[k].fetches = 1
         /\ obs[k].gate \in {"disallow", "raise"} => obs[k].state = "SKIPPED_ROBOTS"
         /\ Cardinality(BlockedFor(sites[k].url))
              = Cardinality(InState(sites[k].url, "SKIPPED_ROBOTS"))
         /\ Cardinality(RecordsFor(sites[k].url))
              <= Cardinality({j \in At(sites[k].url) : obs[j].fetched = "ok"})

\* Within a run an entry that has left PENDING keeps the state it took.
EntryStateFinal ==
    (run' = run /\ Loaded) =>
      \A k \in DOMAIN obs :
         obs[k].state # "PENDING" => obs'[k].state = obs[k].state

\* A step in which the gate answers False for the entry the loop is at
\* writes one 'Blocked by robots.txt' entry for its URL and nothing else.
BlockedStep ==
    (pc = "robots" /\ run' = run /\ obs'[i].gate \in {"disallow", "raise"}) =>
      /\ errlog' = Append(errlog, ErrorEntry(sites[i].url, BlockedReason))
      /\ obs'[i].state = "SKIPPED_ROBOTS"
      /\ obs'[i].fetches = 0
      /\ dataFile' = dataFile /\ outBuf' = outBuf
      /\ pc' = "loop" /\ i' = i + 1

\* C8. Fixed transition order per Link Entry: an entry leaves PENDING for
\* one of SKIPPED_DUPLICATE, SKIPPED_ROBOTS, FETCHED, FAILED and stays there;
\* fetch_content is called only after the ledger missed and the gate allowed
\* in the same iteration; a gate answering False writes exactly one
\* 'Blocked by robots.txt' Error Entry, no fetch follows and no record.
TransitionOrder == []EntryOrder /\ [][EntryStateFinal /\ BlockedStep]_vars

TransitionWitness ==
    /\ pc = "done"
    /\ \E j, k \in DOMAIN obs :
         /\ obs[j].state = "SKIPPED_ROBOTS"
         /\ obs[k].state = "FAILED"
         /\ sites[j].url = sites[k].url

LedgerFrozen == (pc \in Running /\ run' = run) => scraped' = scraped

\* The outcome of an entry is decided by the startup store and its own probe
\* and fetch.
OutcomeByStartupStore ==
    Loaded =>
      \A k \in DOMAIN obs :
         Processed(k) =>
            IF sites[k].url \in RecordedUrls(startStore)
            THEN obs[k].state = "SKIPPED_DUPLICATE"
            ELSE /\ obs[k].probes = 1
                 /\ obs[k].gate = "allow" => obs[k].fetches = 1
                 /\ obs[k].gate # "allow" => obs[k].state = "SKIPPED_ROBOTS"

\* C10. Frame property: the Dedup Index built at startup is never modified
\* during the run, so each entry's outcome depends on the startup store and
\* on its own probe and fetch; a URL absent from the store that occurs at two
\* positions is probed and fetched at both.
LedgerFrame == []OutcomeByStartupStore /\ [][LedgerFrozen]_vars

LedgerFrameWitness ==
    /\ pc = "done"
    /\ \E j, k \in DOMAIN obs :
         /\ j < k
         /\ sites[j].url = sites[k].url
         /\ obs[j].fetches = 1
         /\ obs[k].fetches = 1

----------------------------------------------------------------------------
(* SpecLoad: load_scraped_urls and load_jsonl read one JSONL file *)

InitLoad ==
    /\ IdleMain
    /\ IdleClean
    /\ pc = "idle"
    /\ file \in SeqsUpTo(StoreLines, MaxFileLines)
    /\ ledgerResult = NotCalled
    /\ jsonlResult = NotCalled

\* get_data.py: scraped = load_scraped_urls() on the file.
ReadLedger ==
    /\ ~ledgerResult.called
    /\ ledgerResult' = Returned(LoadScrapedUrls(file))
    /\ UNCHANGED <<file, jsonlResult, mainVars, cleanVars>>

\* main.py: docs = load_jsonl(file_path) on the file; what it raises
\* reaches the caller.
ReadJsonl ==
    /\ ~jsonlResult.called
    /\ LET r == LoadJsonl(file)
       IN  jsonlResult' = IF r.raised THEN Raised(r.error) ELSE Returned(r.docs)
    /\ UNCHANGED <<file, ledgerResult, mainVars, cleanVars>>

NextLoad == ReadLedger \/ ReadJsonl

SpecLoad == InitLoad /\ [][NextLoad]_vars

\* A line both readers can use, and the document load_jsonl makes of it.
LedgerLine(l) == l.kind = "object" /\ l.url # Missing
JsonlLine(l) == l.kind = "object" /\ l.url # Missing /\ l.content # Missing
Doc(l) == [content |-> l.content, url |-> l.url]
DocsOf(lines) == [k \in DOMAIN lines |-> Doc(lines[k])]
LastLineOf(u, lines) ==
    CHOOSE k \in DOMAIN lines :
       /\ LedgerLine(lines[k]) /\ lines[k].url = u
       /\ \A j \in DOMAIN lines : LedgerLine(lines[j]) /\ lines[j].url = u => j <= k

\* The ledger replay returns url -> content_hash of the last well-formed
\* line of each URL, whatever other lines the file holds.
LedgerTolerates ==
    ledgerResult.called =>
      /\ ~ledgerResult.raised
      /\ DOMAIN ledgerResult.value = RecordedUrls(file)
      /\ \A u \in RecordedUrls(file) :
            LET l == file[LastLineOf(u, file)]
            IN  ledgerResult.value[u] =
                   IF l.content_hash = Missing THEN None ELSE l.content_hash

\* C5 as stated. Every reader tolerates malformed lines: both the ledger
\* replay and load_jsonl skip them, do not abort, and return the entries of
\* all well-formed lines.
ReadersTolerateMalformed ==
    /\ LedgerTolerates
    /\ jsonlResult.called =>
         /\ ~jsonlResult.raised
         /\ jsonlResult.value = DocsOf(SelectSeq(file, JsonlLine))

\* C5 amended. The ledger replay skips malformed lines and returns the
\* entries of all well-formed ones; load_jsonl skips nothing: it raises on
\* the first line that is not a JSON object with "content" and "url" and
\* returns the documents of a file only when every line is well-formed.
ReadersOnMalformed ==
    /\ LedgerTolerates
    /\ jsonlResult.called =>
         /\ jsonlResult.raised <=> \E l \in Range(file) : ~JsonlLine(l)
         /\ jsonlResult.raised =>
              LET first == CHOOSE k \in DOMAIN file :
                              /\ ~JsonlLine(file[k])
                              /\ \A j \in 1..(k - 1) : JsonlLine(file[j])
              IN  /\ jsonlResult.value = <<>>
                  /\ jsonlResult.error = JsonlError(file[first])
         /\ ~jsonlResult.raised => jsonlResult.value = DocsOf(file)

ReadersWitness ==
    /\ ledgerResult.called
    /\ jsonlResult.called
    /\ Len(file) = 3
    /\ file[1].kind = "garbage"
    /\ JsonlLine(file[2])
    /\ file[3].kind = "object" /\ file[3].url = Missing
    /\ DOMAIN ledgerResult.value = {file[2].url}
    /\ jsonlResult.raised

----------------------------------------------------------------------------
(* scraper.py: clean_markdown, on texts as sequences of characters *)

SP == " "
TAB == "\t"
NL == "\n"
NBSP == "<U+00A0>"
ZWSP == "<U+200B>"
RSQUO == "<U+2019>"
APOS == "'"
Alphabet == {"a", SP, TAB, NL, NBSP, ZWSP, RSQUO}

\* Line 58: unicodedata.normalize("NFKC", text). Of the alphabet only the
\* no-break space has a compatibility mapping (to the space).
NfkcChar(c) == IF c = NBSP THEN SP ELSE c
Nfkc(t) == [k \in DOMAIN t |-> NfkcChar(t[k])]

\* Line 60: text.replace(U+00A0, " ").
ReplaceNbspChar(c) == IF c = NBSP THEN SP ELSE c
ReplaceNbsp(t) == [k \in DOMAIN t |-> ReplaceNbspChar(t[k])]

\* Line 62: re.sub of the class U+200B..U+200D, U+FEFF by "".
Visible(c) == c # ZWSP
RemoveInvisible(t) == SelectSeq(t, Visible)

\* Line 64: curly single quotes become straight ones.
StraightenChar(c) == IF c = RSQUO THEN APOS ELSE c
StraightenQuotes(t) == [k \in DOMAIN t |-> StraightenChar(t[k])]

\* Line 66: re.sub(r"[ \t]+", " ", text): every maximal run of spaces and
\* tabs becomes one space.
Blank(c) == c \in {SP, TAB}
RECURSIVE CollapseSpacesFrom(_, _, _)
CollapseSpacesFrom(t, k, acc) ==
    IF k > Len(t) THEN acc
    ELSE IF ~Blank(t[k]) THEN CollapseSpacesFrom(t, k + 1, Append(acc, t[k]))
    ELSE IF k > 1 /\ Blank(t[k - 1]) THEN CollapseSpacesFrom(t, k + 1, acc)
    ELSE CollapseSpacesFrom(t, k + 1, Append(acc, SP))
CollapseSpaces(t) == CollapseSpacesFrom(t, 1, <<>>)

\* Line 68: re.sub(r"\n{3,}", "\n\n", text): of every maximal run of three
\* or more newlines two are kept.
RECURSIVE CollapseNewlinesFrom(_, _, _)
CollapseNewlinesFrom(t, k, acc) ==
    IF k > Len(t) THEN acc
    ELSE IF t[k] = NL /\ k > 2 /\ t[k - 1] = NL /\ t[k - 2] = NL
         THEN CollapseNewlinesFrom(t, k + 1, acc)
    ELSE CollapseNewlinesFrom(t, k + 1, Append(acc, t[k]))
CollapseNewlines(t) == CollapseNewlinesFrom(t, 1, <<>>)

\* str.splitlines(): the text is cut after every newline, the newlines are
\* dropped, and no empty last line is made by a final newline.
RECURSIVE SplitLinesFrom(_, _, _, _)
SplitLinesFrom(t, k, cur, acc) ==
    IF k > Len(t) THEN (IF cur = <<>> THEN acc ELSE Append(acc, cur))
    ELSE IF t[k] = NL THEN SplitLinesFrom(t, k + 1, <<>>, Append(acc, cur))
    ELSE SplitLinesFrom(t, k + 1, Append(cur, t[k]), acc)
SplitLines(t) == SplitLinesFrom(t, 1, <<>>, <<>>)

\* str.strip(): whitespace is removed at both ends.
Whitespace(c) == c \in {SP, TAB, NL, NBSP}
RECURSIVE LStrip(_)
LStrip(t) == IF t # <<>> /\ Whitespace(Head(t)) THEN LStrip(Tail(t)) ELSE t
RECURSIVE RStrip(_)
RStrip(t) ==
    IF t # <<>> /\ Whitespace(t[Len(t)]) THEN RStrip(SubSeq(t, 1, Len(t) - 1)) ELSE t
Strip(t) == RStrip(LStrip(t))

\* "\n".join(lines).
RECURSIVE JoinLinesFrom(_, _, _)
JoinLinesFrom(lines, k, acc) ==
    IF k > Len(lines) THEN acc
    ELSE JoinLinesFrom(lines, k + 1,
             IF k = 1 THEN lines[k] ELSE acc \o <<NL>> \o lines[k])
JoinLines(lines) == JoinLinesFrom(lines, 1, <<>>)

\* Line 70: "\n".join(line.strip() for line in text.splitlines()).
StripLines(t) ==
    LET lines == SplitLines(t)
    IN  JoinLines([k \in DOMAIN lines |-> Strip(lines[k])])

\* Lines 58-73.
CleanMarkdown(t) ==
    Strip(StripLines(CollapseNewlines(CollapseSpaces(
        StraightenQuotes(RemoveInvisible(ReplaceNbsp(Nfkc(t))))))))

InitClean ==
    /\ IdleMain
    /\ IdleLoad
    /\ pc = "clean"
    /\ text \in SeqsUpTo(Alphabet, MaxLen)
    /\ once = <<>>
    /\ twice = <<>>

\* markdown = clean_markdown(markdown), as fetch_content calls it.
CleanOnce ==
    /\ pc = "clean"
    /\ once' = CleanMarkdown(text)
    /\ pc' = "cleaned"
    /\ UNCHANGED <<text, twice, linksFile, dataFile, run, sites, scraped, i,
                   content, outBuf, errlog, obs, startStore, failedBefore, loadVars>>

\* clean_markdown applied to its own output.
CleanAgain ==
    /\ pc = "cleaned"
    /\ twice' = CleanMarkdown(once)
    /\ pc' = "recleaned"
    /\ UNCHANGED <<text, once, linksFile, dataFile, run, sites, scraped, i,
                   content, outBuf, errlog, obs, startStore, failedBefore, loadVars>>

NextClean == CleanOnce \/ CleanAgain

SpecClean == InitClean /\ [][NextClean]_vars

\* C4. Idempotence of normalization: clean_markdown(clean_markdown(x)) is
\* clean_markdown(x) for every text x.
CleanIdempotent == pc = "recleaned" => twice = once

====
